---- MODULE Spec2Model ----
(***************************************************************************)
(* Model of package tcpinfo (option.go): the State enum and its String     *)
(* method, the Info record and its MarshalJSON, the CCInfo and CCAlgorithm *)
(* options with their Level/Name/Marshal methods and parse functions, and  *)
(* ParseCCAlgorithmInfo.                                                   *)
(*                                                                         *)
(* The package is a library of synchronous calls.  The state is the last   *)
(* completed call (op, arg, ret) plus the heap that a live CCInfo shares   *)
(* with its caller: mem holds the byte arrays, buf is the caller's slice,  *)
(* cci the CCInfo, and parsed records the bytes buf held when it was       *)
(* parsed.                                                                 *)
(*                                                                         *)
(* Go strings that are converted to or from []byte (CCAlgorithm) are       *)
(* sequences of bytes; strings that are only compared (state names, JSON   *)
(* keys, algorithm names used as map keys) are TLA+ strings.               *)
(***************************************************************************)
EXTENDS Integers, Sequences, FiniteSets, TLC

VARIABLES op, arg, ret, mem, buf, cci, parsed

vars == <<op, arg, ret, mem, buf, cci, parsed>>

\* ---------------------------------------------------------------- bounds
\* State values tried below Unknown and above TimeWait.
StateSlack == 2
\* Longest byte buffer / CCAlgorithm string.
MaxLen == 2
\* Largest byte value, and largest value of a numeric Info field.
MaxVal == 1
\* Most options one Info carries (Options and PeerOptions together).
MaxOpts == 2

\* ---------------------------------------------------------------- errors
errOpNoSupport == "operation not supported"
errBufferTooShort == "buffer too short"
NilError == "<nil error>"

\* ---------------------------------------------------------------- State
Unknown == 0
Closed == 1
Listen == 2
SynSent == 3
SynReceived == 4
Established == 5
FinWait1 == 6
FinWait2 == 7
CloseWait == 8
LastAck == 9
Closing == 10
TimeWait == 11

states ==
  (Unknown :> "unknown") @@ (Closed :> "closed") @@ (Listen :> "listen")
  @@ (SynSent :> "syn-sent") @@ (SynReceived :> "syn-received")
  @@ (Established :> "established") @@ (FinWait1 :> "fin-wait-1")
  @@ (FinWait2 :> "fin-wait-2") @@ (CloseWait :> "close-wait")
  @@ (LastAck :> "last-ack") @@ (Closing :> "closing")
  @@ (TimeWait :> "time-wait")

\* Faulty variant: the ok test dropped, so a missing key yields Go's zero string.
StringNoOkTest(st) ==
  IF st \in DOMAIN states THEN states[st] ELSE ""

\* Faulty variant: the table indexed one off.
StringOffByOne(st) ==
  IF st + 1 \in DOMAIN states THEN states[st + 1] ELSE "<nil>"

\* func (st State) String() string
String(st) ==
  IF st \in DOMAIN states THEN states[st] ELSE "<nil>"

StateRange == (Unknown - StateSlack)..(TimeWait + StateSlack)

\* ---------------------------------------------------------------- bytes
Byte == 0..MaxVal

RECURSIVE SeqsUpTo(_, _)
SeqsUpTo(S, n) ==
  IF n = 0 THEN {<<>>}
  ELSE LET shorter == SeqsUpTo(S, n - 1)
       IN shorter \cup {Append(s, x) : s \in {t \in shorter : Len(t) = n - 1}, x \in S}

\* A Go slice passed by value of its contents: nil, or a (possibly empty)
\* sequence of elements.
NilSlice == [isNil |-> TRUE, elems |-> <<>>]
MkSlice(s) == [isNil |-> FALSE, elems |-> s]
len(b) == Len(b.elems)

\* "cubic"
Cubic == <<99, 117, 98, 105, 99>>

GoStrings == SeqsUpTo(Byte, MaxLen) \cup {Cubic}
ByteSlices == {NilSlice} \cup {MkSlice(s) : s \in GoStrings}

\* ---------------------------------------------------------------- CCAlgorithm
\* Faulty variant: the empty-string test dropped from Marshal and the last byte lost
\* (an off-by-one slice bound).
CCAlgorithmMarshalTruncating(cca) ==
  IF cca = <<>> THEN [b |-> NilSlice, err |-> NilError]
  ELSE [b |-> MkSlice(SubSeq(cca, 1, Len(cca) - 1)), err |-> NilError]

\* func (cca CCAlgorithm) Marshal() ([]byte, error)
CCAlgorithmMarshal(cca) ==
  IF cca = <<>> THEN [b |-> NilSlice, err |-> NilError]
  ELSE [b |-> MkSlice(cca), err |-> NilError]

\* func parseCCAlgorithm(b []byte) (tcpopt.Option, error): the conversion
\* CCAlgorithm(b) copies the bytes of b; a nil b has none.
parseCCAlgorithm(b) ==
  [opt |-> [isNil |-> FALSE, type |-> "CCAlgorithm", val |-> b.elems],
   err |-> NilError]

\* ---------------------------------------------------------------- option registry
\* The kinds that index the registry, and the platforms a build selects.
soInfo == "soInfo"
soCCInfo == "soCCInfo"
soCCAlgo == "soCCAlgo"
OptionKinds == {soInfo, soCCInfo, soCCAlgo}

Platforms == {"darwin", "freebsd", "linux", "netbsd", "other"}

\* Go's zero value of a registry entry: what indexing yields for a kind the
\* platform's table does not set.
zeroOption == [level |-> 0, name |-> 0]

\* The kinds each platform's table sets (Info on the four supported systems,
\* CCInfo and CCAlgorithm on Linux only).
definedKinds(p) ==
  CASE p = "linux" -> {soInfo, soCCInfo, soCCAlgo}
    [] p \in {"darwin", "freebsd", "netbsd"} -> {soInfo}
    [] OTHER -> {}

\* The platform's table: (protocol level, option number) per kind.
options(p) ==
  [k \in OptionKinds |->
     IF k \notin definedKinds(p) THEN zeroOption
     ELSE CASE p = "linux" /\ k = soInfo -> [level |-> 6, name |-> 11]
            [] p = "linux" /\ k = soCCInfo -> [level |-> 6, name |-> 26]
            [] p = "linux" /\ k = soCCAlgo -> [level |-> 6, name |-> 13]
            [] p = "darwin" -> [level |-> 6, name |-> 262]
            [] p = "freebsd" -> [level |-> 6, name |-> 32]
            [] p = "netbsd" -> [level |-> 6, name |-> 9]]

\* func (i *Info) Level() int / Name() int
InfoLevel(p, i) == options(p)[soInfo].level
InfoName(p, i) == options(p)[soInfo].name

\* Faulty variant: the CCInfo methods index the registry with the CCAlgorithm kind.
CCInfoNameWrongKind(p, c) == options(p)[soCCAlgo].name

\* func (cci *CCInfo) Level() int / Name() int
CCInfoLevel(p, c) == options(p)[soCCInfo].level
CCInfoName(p, c) == options(p)[soCCInfo].name

\* func (cca CCAlgorithm) Level() int / Name() int
CCAlgorithmLevel(p, cca) == options(p)[soCCAlgo].level
CCAlgorithmName(p, cca) == options(p)[soCCAlgo].name

\* ---------------------------------------------------------------- CCAlgorithmInfo
\* A nil CCAlgorithmInfo interface value.
NilInfo == [isNil |-> TRUE]

\* Algorithm names with a structured decoder, per platform (Linux only).
registeredAlgorithms(p) ==
  IF p = "linux" THEN {"vegas", "dctcp", "bbr"} ELSE {}

AlgorithmNames == {"vegas", "dctcp", "bbr", "cubic", "reno", ""}

\* Bytes a decoder needs before it yields a record (scaled to the model's
\* buffers).
sizeofAlgorithmInfo == 1

\* A registered decoder: too short a buffer is an error, otherwise the
\* record of that algorithm.
decodeAlgorithmInfo(name, b) ==
  IF len(b) < sizeofAlgorithmInfo
  THEN [ccai |-> NilInfo, err |-> errBufferTooShort]
  ELSE [ccai |-> [isNil |-> FALSE, algorithm |-> name, raw |-> b.elems],
        err |-> NilError]

\* func parseCCAlgorithmInfo(name string, b []byte) (CCAlgorithmInfo, error)
parseCCAlgorithmInfo(p, name, b) ==
  IF name \notin registeredAlgorithms(p)
  THEN [ccai |-> NilInfo, err |-> errOpNoSupport]
  ELSE decodeAlgorithmInfo(name, b)

\* The Algorithm method of a non-nil CCAlgorithmInfo.
Algorithm(ccai) == ccai.algorithm

\* Faulty variant: the error of the lookup is dropped.
ParseCCAlgorithmInfoDropsError(p, name, b) ==
  [ccai |-> parseCCAlgorithmInfo(p, name, b).ccai, err |-> NilError]

\* func ParseCCAlgorithmInfo(name string, b []byte) (CCAlgorithmInfo, error)
ParseCCAlgorithmInfo(p, name, b) ==
  LET r == parseCCAlgorithmInfo(p, name, b)
  IN IF r.err # NilError
     THEN [ccai |-> NilInfo, err |-> r.err]
     ELSE [ccai |-> r.ccai, err |-> NilError]

\* ---------------------------------------------------------------- Info
\* A pointer to a sub-record: nil, or the record pointed to.
NilPtr == [isNil |-> TRUE]
PtrTo(v) == [isNil |-> FALSE, val |-> v]

\* The peer/requested option values an Info carries: window scale (3),
\* SACK permitted (4) and timestamps (8), each with a value.
OptionValues == {[kind |-> k, val |-> v] : k \in {3, 4, 8}, v \in 0..1}

\* opt.Kind().String()
KindString(k) ==
  CASE k = 3 -> "wscale"
    [] k = 4 -> "sack"
    [] k = 8 -> "tmstamps"
    [] OTHER -> "<nil>"

OptionSlices == {NilSlice} \cup {MkSlice(s) : s \in SeqsUpTo(OptionValues, MaxOpts)}

FlowControls == {[ReceiverWindow |-> n] : n \in 0..1}
CongestionControls ==
  {[SenderSSThreshold |-> n, ReceiverSSThreshold |-> 0, SenderWindow |-> 2 * n] :
     n \in 0..1}
SysInfos == {[opaque |-> 0]}

\* The nine scalar fields: all zero (v = 0) or pairwise distinct multiples
\* of v.
Scalars(v) ==
  [SenderMSS |-> v, ReceiverMSS |-> 2 * v, RTT |-> 3 * v, RTTVar |-> 4 * v,
   RTO |-> 5 * v, ATO |-> 6 * v, LastDataSent |-> 7 * v,
   LastDataReceived |-> 8 * v, LastAckReceived |-> 9 * v]

InfoStates == {Unknown, Established, TimeWait, TimeWait + 1}

\* type Info struct
MkInfo(st, opts, peer, sc, fc, cc, sys) ==
  [State |-> st, Options |-> opts, PeerOptions |-> peer,
   SenderMSS |-> sc.SenderMSS, ReceiverMSS |-> sc.ReceiverMSS,
   RTT |-> sc.RTT, RTTVar |-> sc.RTTVar, RTO |-> sc.RTO, ATO |-> sc.ATO,
   LastDataSent |-> sc.LastDataSent,
   LastDataReceived |-> sc.LastDataReceived,
   LastAckReceived |-> sc.LastAckReceived,
   FlowControl |-> fc, CongestionControl |-> cc, Sys |-> sys]

ZeroInfo ==
  MkInfo(Unknown, NilSlice, NilSlice, Scalars(0), NilPtr, NilPtr, NilPtr)

Infos ==
  {MkInfo(st, so[1], so[2], Scalars(v), fc, cc, sys) :
     st \in InfoStates,
     so \in {x \in OptionSlices \X OptionSlices : len(x[1]) + len(x[2]) <= MaxOpts},
     v \in {0, MaxVal},
     fc \in {NilPtr} \cup {PtrTo(r) : r \in FlowControls},
     cc \in {NilPtr} \cup {PtrTo(r) : r \in CongestionControls},
     sys \in {NilPtr} \cup {PtrTo(r) : r \in SysInfos}}

SomeInfos ==
  {ZeroInfo,
   MkInfo(Established, NilSlice, NilSlice, Scalars(1),
          PtrTo([ReceiverWindow |-> 1]), NilPtr, NilPtr)}

\* make(map[string]interface{}) and raw[k] = v
EmptyMap == [k \in {} |-> 0]
Put(raw, k, v) == (k :> v) @@ raw

\* for _, opt := range opts { m[opt.Kind().String()] = opt }: the result of
\* the loop over elems, its last iteration applied to the result of the
\* iterations before it.
RECURSIVE OptsMap(_)
OptsMap(elems) ==
  IF elems = <<>> THEN EmptyMap
  ELSE LET last == elems[Len(elems)]
       IN Put(OptsMap(SubSeq(elems, 1, Len(elems) - 1)), KindString(last.kind), last)

putState(raw, i) == Put(raw, "state", String(i.State))

\* Faulty variant: an entry already in the map is kept (the first option of a kind
\* wins).
RECURSIVE OptsMapFirstWins(_)
OptsMapFirstWins(elems) ==
  IF elems = <<>> THEN EmptyMap
  ELSE LET last == elems[Len(elems)]
       IN OptsMapFirstWins(SubSeq(elems, 1, Len(elems) - 1))
            @@ (KindString(last.kind) :> last)
putOptionsFirstWins(raw, i) ==
  IF len(i.Options) > 0 THEN Put(raw, "opts", OptsMapFirstWins(i.Options.elems))
  ELSE raw

\* Faulty variant: the len test replaced by a nil test, so an empty non-nil slice
\* emits an empty mapping.
putOptionsUnlessNil(raw, i) ==
  IF ~i.Options.isNil THEN Put(raw, "opts", OptsMap(i.Options.elems))
  ELSE raw

putOptions(raw, i) ==
  IF len(i.Options) > 0 THEN Put(raw, "opts", OptsMap(i.Options.elems))
  ELSE raw

putPeerOptions(raw, i) ==
  IF len(i.PeerOptions) > 0
  THEN Put(raw, "peer_opts", OptsMap(i.PeerOptions.elems))
  ELSE raw

\* Faulty variant: rtt and rttvar exchanged.
putScalarsSwapped(raw, i) ==
  ("snd_mss" :> i.SenderMSS) @@ ("rcv_mss" :> i.ReceiverMSS)
  @@ ("rtt" :> i.RTTVar) @@ ("rttvar" :> i.RTT) @@ ("rto" :> i.RTO)
  @@ ("ato" :> i.ATO) @@ ("last_data_sent" :> i.LastDataSent)
  @@ ("last_data_rcvd" :> i.LastDataReceived)
  @@ ("last_ack_rcvd" :> i.LastAckReceived) @@ raw

putScalars(raw, i) ==
  ("snd_mss" :> i.SenderMSS) @@ ("rcv_mss" :> i.ReceiverMSS)
  @@ ("rtt" :> i.RTT) @@ ("rttvar" :> i.RTTVar) @@ ("rto" :> i.RTO)
  @@ ("ato" :> i.ATO) @@ ("last_data_sent" :> i.LastDataSent)
  @@ ("last_data_rcvd" :> i.LastDataReceived)
  @@ ("last_ack_rcvd" :> i.LastAckReceived) @@ raw

\* Faulty variant: the nil test dropped, so a nil pointer is stored (and encodes as
\* null).
putFlowControlAlways(raw, i) == Put(raw, "flow_ctl", i.FlowControl)

putFlowControl(raw, i) ==
  IF ~i.FlowControl.isNil THEN Put(raw, "flow_ctl", i.FlowControl) ELSE raw

putCongestionControl(raw, i) ==
  IF ~i.CongestionControl.isNil THEN Put(raw, "cong_ctl", i.CongestionControl)
  ELSE raw

putSys(raw, i) ==
  IF ~i.Sys.isNil THEN Put(raw, "sys", i.Sys) ELSE raw

\* json.Marshal(&raw): the document has the keys of raw; a pointer encodes
\* as the record it points to, a nil pointer as null.
JSONNull == [null |-> TRUE]
PointerKeys == {"flow_ctl", "cong_ctl", "sys"}
JSONMarshal(raw) ==
  [doc |-> [k \in DOMAIN raw |->
              IF k \in PointerKeys
              THEN (IF raw[k].isNil THEN JSONNull ELSE raw[k].val)
              ELSE raw[k]],
   err |-> NilError]

\* func (i *Info) MarshalJSON() ([]byte, error)
MarshalJSON(i) ==
  JSONMarshal(
    putSys(putCongestionControl(putFlowControl(putScalars(
      putPeerOptions(putOptions(putState(EmptyMap, i), i), i), i), i), i), i))

\* ---------------------------------------------------------------- CCInfo
\* A []byte as Go passes it: a header (ptr, len) onto an array of mem; ptr 0
\* is the nil slice.  Copying the header shares the array.
NilHeader == [ptr |-> 0, len |-> 0]
BytesAt(m, h) == IF h.ptr = 0 THEN <<>> ELSE SubSeq(m[h.ptr], 1, h.len)

\* func parseCCInfo(b []byte) (tcpopt.Option, error): &CCInfo{Raw: b}
parseCCInfo(b) == [opt |-> [isNil |-> FALSE, type |-> "CCInfo", Raw |-> b], err |-> NilError]

\* func (cci *CCInfo) Marshal() ([]byte, error)
CCInfoMarshal(c) == [b |-> c.Raw, err |-> NilError]

\* ---------------------------------------------------------------- actions
\* The caller hands parseCCInfo a buffer it got from the kernel.
CallParseCCInfo ==
  /\ op = "idle"
  /\ \E s \in ByteSlices :
       LET b == IF s.isNil THEN NilHeader ELSE [ptr |-> 1, len |-> Len(s.elems)]
       IN /\ mem' = IF s.isNil THEN <<>> ELSE <<s.elems>>
          /\ buf' = b
          /\ op' = "parseCCInfo"
          /\ arg' = b
          /\ ret' = parseCCInfo(b)
          /\ cci' = <<parseCCInfo(b).opt>>
          /\ parsed' = <<s.elems>>

\* The caller reuses its buffer: buf[idx] = v.
CallerWrite ==
  /\ cci # <<>>
  /\ buf.ptr # 0
  /\ \E idx \in 1..buf.len, v \in Byte :
       /\ mem' = [mem EXCEPT ![buf.ptr][idx] = v]
       /\ op' = "write"
       /\ arg' = [index |-> idx, value |-> v]
       /\ ret' = <<>>
  /\ UNCHANGED <<buf, cci, parsed>>

CallCCInfoMarshal ==
  /\ cci # <<>>
  /\ op' = "CCInfo.Marshal"
  /\ arg' = cci[1]
  /\ ret' = CCInfoMarshal(cci[1])
  /\ UNCHANGED <<mem, buf, cci, parsed>>

CallString ==
  /\ op = "idle"
  /\ \E st \in StateRange :
       /\ op' = "State.String"
       /\ arg' = st
       /\ ret' = String(st)
  /\ UNCHANGED <<mem, buf, cci, parsed>>

CallCCAlgorithmMarshal ==
  /\ op = "idle"
  /\ \E cca \in GoStrings :
       /\ op' = "CCAlgorithm.Marshal"
       /\ arg' = cca
       /\ ret' = CCAlgorithmMarshal(cca)
  /\ UNCHANGED <<mem, buf, cci, parsed>>

\* parseCCAlgorithm on the bytes the last Marshal produced (sent remembers
\* the value that was marshalled), or on any other buffer.
CallParseCCAlgorithm ==
  /\ \/ /\ op = "CCAlgorithm.Marshal"
        /\ arg' = [b |-> ret.b, sent |-> <<arg>>]
        /\ ret' = parseCCAlgorithm(ret.b)
     \/ \E b \in ByteSlices :
          /\ op = "idle"
          /\ arg' = [b |-> b, sent |-> <<>>]
          /\ ret' = parseCCAlgorithm(b)
  /\ op' = "parseCCAlgorithm"
  /\ UNCHANGED <<mem, buf, cci, parsed>>

\* Level() and Name() of an *Info, as the socket-option layer asks for them.
\* Both return an int and have no error result: err is always nil.
CallInfoLevelName ==
  /\ op = "idle"
  /\ \E p \in Platforms, i \in SomeInfos :
       /\ op' = "Info.Level/Name"
       /\ arg' = [platform |-> p, recv |-> i]
       /\ ret' = [level |-> InfoLevel(p, i), name |-> InfoName(p, i),
                  err |-> NilError]
  /\ UNCHANGED <<mem, buf, cci, parsed>>

CallCCInfoLevelName ==
  /\ op = "idle"
  /\ \E p \in Platforms, c \in ByteSlices :
       /\ op' = "CCInfo.Level/Name"
       /\ arg' = [platform |-> p, recv |-> [Raw |-> c]]
       /\ ret' = [level |-> CCInfoLevel(p, c), name |-> CCInfoName(p, c),
                  err |-> NilError]
  /\ UNCHANGED <<mem, buf, cci, parsed>>

CallCCAlgorithmLevelName ==
  /\ op = "idle"
  /\ \E p \in Platforms, cca \in GoStrings :
       /\ op' = "CCAlgorithm.Level/Name"
       /\ arg' = [platform |-> p, recv |-> cca]
       /\ ret' = [level |-> CCAlgorithmLevel(p, cca),
                  name |-> CCAlgorithmName(p, cca), err |-> NilError]
  /\ UNCHANGED <<mem, buf, cci, parsed>>

CallParseCCAlgorithmInfo ==
  /\ op = "idle"
  /\ \E p \in Platforms, name \in AlgorithmNames, b \in ByteSlices :
       /\ op' = "ParseCCAlgorithmInfo"
       /\ arg' = [platform |-> p, name |-> name, b |-> b]
       /\ ret' = ParseCCAlgorithmInfo(p, name, b)
  /\ UNCHANGED <<mem, buf, cci, parsed>>

CallMarshalJSON ==
  /\ op = "idle"
  /\ \E i \in Infos :
       /\ op' = "Info.MarshalJSON"
       /\ arg' = i
       /\ ret' = MarshalJSON(i)
  /\ UNCHANGED <<mem, buf, cci, parsed>>

\* The caller drops the results of the call (and a CCInfo with its buffer).
Discard ==
  /\ op # "idle"
  /\ op' = "idle"
  /\ arg' = <<>>
  /\ ret' = <<>>
  /\ mem' = <<>>
  /\ buf' = NilHeader
  /\ cci' = <<>>
  /\ parsed' = <<>>

Init ==
  /\ op = "idle"
  /\ arg = <<>>
  /\ ret = <<>>
  /\ mem = <<>>
  /\ buf = NilHeader
  /\ cci = <<>>
  /\ parsed = <<>>

Next ==
  \/ CallString
  \/ CallCCAlgorithmMarshal
  \/ CallParseCCAlgorithm
  \/ CallInfoLevelName
  \/ CallCCInfoLevelName
  \/ CallCCAlgorithmLevelName
  \/ CallParseCCAlgorithmInfo
  \/ CallMarshalJSON
  \/ CallParseCCInfo
  \/ CallerWrite
  \/ CallCCInfoMarshal
  \/ Discard

Spec == Init /\ [][Next]_vars

\* ================================================================ claims
DefinedStates == Unknown..TimeWait

\* C1 (as stated): for every State value outside the twelve defined ones,
\* String() returns the literal "unknown-state".
C1_UnknownStateLiteral ==
  (op = "State.String" /\ arg \notin DefinedStates) => ret = "unknown-state"

\* C1 (amended): for every State value outside the twelve defined ones
\* (below Unknown or above TimeWait), String() returns the literal "<nil>";
\* it always returns, and never the empty string.
C1_UndefinedStateIsNilString ==
  (op = "State.String" /\ arg \notin DefinedStates) => (ret = "<nil>" /\ ret # "")

C1_Witness ==
  op = "State.String" /\ arg < Unknown /\ ret = "<nil>"

\* C2: for each of the twelve defined State values String() returns that
\* value's canonical name; the name is non-empty and no other defined value
\* has it.
C2_CanonicalNames ==
  (op = "State.String" /\ arg \in DefinedStates) =>
    /\ arg = Unknown => ret = "unknown"
    /\ arg = Closed => ret = "closed"
    /\ arg = Listen => ret = "listen"
    /\ arg = SynSent => ret = "syn-sent"
    /\ arg = SynReceived => ret = "syn-received"
    /\ arg = Established => ret = "established"
    /\ arg = FinWait1 => ret = "fin-wait-1"
    /\ arg = FinWait2 => ret = "fin-wait-2"
    /\ arg = CloseWait => ret = "close-wait"
    /\ arg = LastAck => ret = "last-ack"
    /\ arg = Closing => ret = "closing"
    /\ arg = TimeWait => ret = "time-wait"
    /\ ret # ""
    /\ \A other \in DefinedStates \ {arg} : String(other) # ret

C2_Witness ==
  op = "State.String" /\ arg = TimeWait /\ ret = "time-wait"

\* The sub-record pointer of an Info that a document key stands for.
SubRecord(i, k) ==
  CASE k = "flow_ctl" -> i.FlowControl
    [] k = "cong_ctl" -> i.CongestionControl
    [] k = "sys" -> i.Sys

\* C3: the document has the key flow_ctl / cong_ctl / sys iff the Info's
\* FlowControl / CongestionControl / Sys pointer is non-nil; a present
\* sub-record is emitted as that record (also when all its fields are zero),
\* never as null.
C3_OptionalSubRecords ==
  op = "Info.MarshalJSON" =>
    \A k \in PointerKeys :
      /\ k \in DOMAIN ret.doc <=> ~SubRecord(arg, k).isNil
      /\ k \in DOMAIN ret.doc =>
           (ret.doc[k] # JSONNull /\ ret.doc[k] = SubRecord(arg, k).val)

C3_Witness ==
  /\ op = "Info.MarshalJSON"
  /\ arg.FlowControl.isNil
  /\ "flow_ctl" \notin DOMAIN ret.doc
  /\ ~arg.CongestionControl.isNil
  /\ arg.CongestionControl.val =
       [SenderSSThreshold |-> 0, ReceiverSSThreshold |-> 0, SenderWindow |-> 0]
  /\ "cong_ctl" \in DOMAIN ret.doc

KindNames(elems) == {KindString(elems[j].kind) : j \in 1..Len(elems)}

\* The mapping m holds one entry per distinct kind name of elems, each the
\* last option of that kind name in sequence order.
CollapsedLastWins(m, elems) ==
  /\ DOMAIN m = KindNames(elems)
  /\ Cardinality(DOMAIN m) = Cardinality(KindNames(elems))
  /\ \A j \in 1..Len(elems) :
       (\A l \in (j + 1)..Len(elems) : KindString(elems[l].kind) # KindString(elems[j].kind))
         => m[KindString(elems[j].kind)] = elems[j]

\* C4: a non-empty Options (PeerOptions) is emitted as a mapping keyed by
\* kind name with as many entries as distinct kind names; options sharing a
\* kind name collapse to the last of them, and serialization succeeds.
C4_OptionsCollapseLastWins ==
  op = "Info.MarshalJSON" =>
    /\ ret.err = NilError
    /\ len(arg.Options) > 0 =>
         ("opts" \in DOMAIN ret.doc /\ CollapsedLastWins(ret.doc["opts"], arg.Options.elems))
    /\ len(arg.PeerOptions) > 0 =>
         /\ "peer_opts" \in DOMAIN ret.doc
         /\ CollapsedLastWins(ret.doc["peer_opts"], arg.PeerOptions.elems)

C4_Witness ==
  /\ op = "Info.MarshalJSON"
  /\ len(arg.Options) = 2
  /\ arg.Options.elems[1].kind = arg.Options.elems[2].kind
  /\ arg.Options.elems[1].val # arg.Options.elems[2].val
  /\ Cardinality(DOMAIN ret.doc["opts"]) = 1
  /\ ret.doc["opts"][KindString(arg.Options.elems[2].kind)] = arg.Options.elems[2]
  /\ ret.err = NilError

StateNames ==
  {"unknown", "closed", "listen", "syn-sent", "syn-received", "established",
   "fin-wait-1", "fin-wait-2", "close-wait", "last-ack", "closing",
   "time-wait", "<nil>"}

\* C5: every document has the key state, holding String() of Info.State (a
\* string), and the nine scalar keys, each holding its Info field's value
\* unchanged, also when that value is zero.
C5_MandatoryKeys ==
  op = "Info.MarshalJSON" =>
    /\ {"state", "snd_mss", "rcv_mss", "rtt", "rttvar", "rto", "ato",
        "last_data_sent", "last_data_rcvd", "last_ack_rcvd"} \subseteq DOMAIN ret.doc
    /\ ret.doc["state"] \in StateNames
    /\ ret.doc["state"] = String(arg.State)
    /\ ret.doc["snd_mss"] = arg.SenderMSS
    /\ ret.doc["rcv_mss"] = arg.ReceiverMSS
    /\ ret.doc["rtt"] = arg.RTT
    /\ ret.doc["rttvar"] = arg.RTTVar
    /\ ret.doc["rto"] = arg.RTO
    /\ ret.doc["ato"] = arg.ATO
    /\ ret.doc["last_data_sent"] = arg.LastDataSent
    /\ ret.doc["last_data_rcvd"] = arg.LastDataReceived
    /\ ret.doc["last_ack_rcvd"] = arg.LastAckReceived

C5_Witness ==
  /\ op = "Info.MarshalJSON"
  /\ arg = ZeroInfo
  /\ ret.doc["state"] = "unknown"
  /\ ret.doc["rtt"] = 0
  /\ ret.doc["last_ack_rcvd"] = 0

\* C6: parseCCAlgorithm(a.Marshal()) is the CCAlgorithm a, with no error;
\* the empty CCAlgorithm marshals to a zero-length buffer, and a zero-length
\* or nil buffer parses to the empty CCAlgorithm, a present value.
C6_CCAlgorithmRoundTrip ==
  /\ op = "CCAlgorithm.Marshal" =>
       (ret.err = NilError /\ (arg = <<>> => len(ret.b) = 0))
  /\ (op = "parseCCAlgorithm" /\ arg.sent # <<>>) =>
       /\ ret.err = NilError
       /\ ~ret.opt.isNil
       /\ ret.opt.type = "CCAlgorithm"
       /\ ret.opt.val = arg.sent[1]
  /\ (op = "parseCCAlgorithm" /\ len(arg.b) = 0) =>
       (ret.err = NilError /\ ~ret.opt.isNil /\ ret.opt.val = <<>>)

C6_Witness ==
  /\ op = "parseCCAlgorithm"
  /\ arg.sent = <<Cubic>>
  /\ ret.opt.val = Cubic
  /\ ret.err = NilError

UnregisteredOutcome ==
  /\ arg.name \notin registeredAlgorithms(arg.platform)
  /\ ret.ccai.isNil
  /\ ret.err = errOpNoSupport

DecodedOutcome ==
  /\ arg.name \in registeredAlgorithms(arg.platform)
  /\ ~ret.ccai.isNil
  /\ ret.err = NilError
  /\ Algorithm(ret.ccai) = arg.name

DecoderFailedOutcome ==
  /\ arg.name \in registeredAlgorithms(arg.platform)
  /\ ret.ccai.isNil
  /\ ret.err # NilError
  /\ ret.err = decodeAlgorithmInfo(arg.name, arg.b).err

\* C7 (as stated): every call of ParseCCAlgorithmInfo has exactly one of two
\* outcomes: no record with "operation not supported" for an unregistered
\* name, or a record of that algorithm with a nil error for a registered one.
C7_TwoOutcomes ==
  op = "ParseCCAlgorithmInfo" => (UnregisteredOutcome \/ DecodedOutcome)

\* C7 (amended): every call of ParseCCAlgorithmInfo has exactly one of three
\* outcomes: no record with "operation not supported" for an unregistered
\* name; a record whose Algorithm() is the name, with a nil error, when the
\* registered decoder succeeds; no record with the decoder's error when the
\* registered decoder fails.  A record never comes with an error, and an
\* unregistered name never gets a record.
C7_ThreeOutcomes ==
  op = "ParseCCAlgorithmInfo" =>
    /\ UnregisteredOutcome \/ DecodedOutcome \/ DecoderFailedOutcome
    /\ ~(~ret.ccai.isNil /\ ret.err # NilError)
    /\ arg.name \notin registeredAlgorithms(arg.platform) => ret.ccai.isNil

C7_Witness ==
  /\ op = "ParseCCAlgorithmInfo"
  /\ arg.name = "bbr"
  /\ len(arg.b) > 0
  /\ ret.err = NilError
  /\ Algorithm(ret.ccai) = "bbr"

\* The registry kind a Level/Name call looks up.
KindOfCall ==
  CASE op = "Info.Level/Name" -> soInfo
    [] op = "CCInfo.Level/Name" -> soCCInfo
    [] op = "CCAlgorithm.Level/Name" -> soCCAlgo

IsLookup == op \in {"Info.Level/Name", "CCInfo.Level/Name", "CCAlgorithm.Level/Name"}

C9_SnapshotOfBuffer ==
  op = "CCInfo.Marshal" => BytesAt(mem, ret.b) = parsed[1]

MandatoryKeys ==
  {"state", "snd_mss", "rcv_mss", "rtt", "rttvar", "rto", "ato",
   "last_data_sent", "last_data_rcvd", "last_ack_rcvd"}

\* C10: the document has the key opts (peer_opts) iff Options (PeerOptions)
\* has at least one element; its keys are the ten mandatory keys and some of
\* opts, peer_opts, flow_ctl, cong_ctl, sys.
C10_KeySet ==
  op = "Info.MarshalJSON" =>
    /\ "opts" \in DOMAIN ret.doc <=> len(arg.Options) > 0
    /\ "peer_opts" \in DOMAIN ret.doc <=> len(arg.PeerOptions) > 0
    /\ MandatoryKeys \subseteq DOMAIN ret.doc
    /\ DOMAIN ret.doc \subseteq
         MandatoryKeys \cup {"opts", "peer_opts", "flow_ctl", "cong_ctl", "sys"}

C10_Witness ==
  /\ op = "Info.MarshalJSON"
  /\ ~arg.Options.isNil
  /\ len(arg.Options) = 0
  /\ arg.PeerOptions.isNil
  /\ "opts" \notin DOMAIN ret.doc
  /\ "peer_opts" \notin DOMAIN ret.doc
  /\ DOMAIN ret.doc = MandatoryKeys
====
